---- MODULE Spec2Model ----
(***************************************************************************)
(* Ledger calculation engine of the option-wheel tracker.                  *)
(*                                                                         *)
(* State: the `transactions` table (rows in insertion order), written by   *)
(* db.transactions.add, update and delete.  The calculators work on the    *)
(* stored rows: the legacy calculators on Transaction objects built by     *)
(* dict_to_transaction, the strategy calculators on the row dicts.         *)
(*                                                                         *)
(* Numbers: prices, fees and amounts are exact integers (no float error);  *)
(* a float quotient a / b is kept as the exact fraction [num, den];        *)
(* round(x, 2) is taken on the exact fraction and yields hundredths.       *)
(* A datetime "YYYY-MM-DD HH:MM:SS" is the integer day * 10 + time of day, *)
(* so that datetime[:10] is datetime \div 10 and string order is <.        *)
(***************************************************************************)
EXTENDS Integers, Sequences, FiniteSets, TLC

\* ------------------------------------------------------------------ bounds

\* Largest number of rows the table holds in the model.
MaxTx == 3

\* Largest id AUTOINCREMENT hands out in the model of the data layer.
MaxId == 3

\* ------------------------------------------------- config/constants.py

ACCOUNTING_ACTIONS == {"INCOME", "EXPENSE"}

CAPITAL_ACTIONS == {"DEPOSIT", "WITHDRAW"}

STOCK_ACTIONS == {"BUY", "SELL", "ASSIGNMENT", "CALLED_AWAY"}

OPTION_ACTIONS == {"STO", "STO_CALL", "STC", "BTC", "BTO_CALL"}

YIELD_ACTIONS == {"DIVIDEND"}

INVESTMENT_ACTIONS ==
    CAPITAL_ACTIONS \cup STOCK_ACTIONS \cup OPTION_ACTIONS \cup YIELD_ACTIONS

ALL_ACTIONS == ACCOUNTING_ACTIONS \cup INVESTMENT_ACTIONS

\* An exception, as the outcome of a call.
ValueError == "ValueError"

IntegrityError == "IntegrityError"

\* An inference that files every action it does not know under TRADING.
infer_category_lenient(action) ==
    IF action = "INCOME" THEN "INCOME"
    ELSE IF action = "EXPENSE" THEN "EXPENSE"
    ELSE IF action \in CAPITAL_ACTIONS THEN "INVESTMENT"
    ELSE "TRADING"

\* infer_category: the category of an action of ALL_ACTIONS; raises
\* ValueError for any other action.
infer_category(action) ==
    IF action = "INCOME" THEN "INCOME"
    ELSE IF action = "EXPENSE" THEN "EXPENSE"
    ELSE IF action \in CAPITAL_ACTIONS THEN "INVESTMENT"
    ELSE IF action \in (STOCK_ACTIONS \cup OPTION_ACTIONS \cup YIELD_ACTIONS)
    THEN "TRADING"
    ELSE ValueError

\* ------------------------------------------------------------ generic helpers

\* Python None for an absent symbol / subtype / option_direction.
None == "None"

RECURSIVE SeqSum(_)
SeqSum(s) == IF s = <<>> THEN 0 ELSE Head(s) + SeqSum(Tail(s))

\* The sum of the values of a dict (a function on a finite set of keys).
RECURSIVE DictSum(_)
DictSum(d) ==
    IF DOMAIN d = {} THEN 0
    ELSE LET k == CHOOSE k \in DOMAIN d : TRUE
         IN  d[k] + DictSum([j \in DOMAIN d \ {k} |-> d[j]])

\* The stable sort of the indices of a sequence of keys: each index is
\* inserted behind the earlier indices whose key is not larger.
RECURSIVE stable_order(_)
stable_order(keys) ==
    IF keys = <<>> THEN <<>>
    ELSE LET n == Len(keys)
             prev == stable_order(SubSeq(keys, 1, n - 1))
             c == Cardinality({j \in 1..(n - 1) : keys[j] <= keys[n]})
         IN  SubSeq(prev, 1, c) \o <<n>> \o SubSeq(prev, c + 1, n - 1)

\* sorted(s, key=...), keys[i] being the key of s[i]: Python's sort is stable
\* (equal keys keep their order).
sorted(s, keys) ==
    LET order == stable_order(keys)
    IN  [p \in 1..Len(s) |-> s[order[p]]]

\* A sort in place (list.sort): the argument list itself ends up sorted.
sorted_argument_in_place(s, keys) == sorted(s, keys)

\* The list handed to sorted(s, key=...), after the call: sorted builds a new
\* list and leaves its argument as it was.
sorted_argument(s, keys) == s

\* The float quotient a / b (b # 0), kept exact.
Quot(a, b) == [num |-> a, den |-> b]

\* round(a / b * 100) for b > 0: nearest hundredth, ties to even.
Round2(q) ==
    LET n == 100 * q.num
        d == q.den
        up == (2 * n + d) \div (2 * d)
    IN  IF (2 * n + d) % (2 * d) = 0 /\ up % 2 = 1 THEN up - 1 ELSE up

\* round(a / b, 1) in tenths for b > 0: nearest tenth, ties to even.
Round1(q) ==
    LET n == 10 * q.num
        d == q.den
        up == (2 * n + d) \div (2 * d)
    IN  IF (2 * n + d) % (2 * d) = 0 /\ up % 2 = 1 THEN up - 1 ELSE up

\* ------------------------------------------------------------------- state

\* table: the rows of the transactions table, in insertion order.
\* sqlite_sequence: the largest id AUTOINCREMENT has handed out.
\* raised: the exception the last call of the data layer ended with (None
\* when it returned).
\* session: what a page holds once it has loaded the ledger: the list of rows
\* it read, the list of Transaction objects it built from them, the
\* calculator it constructed on that list, and its last call.
VARIABLES table, sqlite_sequence, raised, session

vars == <<table, sqlite_sequence, raised, session>>

\* datetime[:10]
DateOf(datetime) == datetime \div 10

\* ------------------------------------------------------- db/connection.py

\* The CHECK constraints of the transactions table in _SCHEMA.
check_constraints(row) ==
    /\ row.action \in {"INCOME", "EXPENSE", "DEPOSIT", "WITHDRAW",
                       "BUY", "SELL", "STO", "STO_CALL", "STC", "BTC",
                       "BTO_CALL", "ASSIGNMENT", "CALLED_AWAY", "DIVIDEND"}
    /\ row.category \in {"INCOME", "EXPENSE", "INVESTMENT", "TRADING"}

\* --------------------------------------------------- db/transactions.py

\* db.transactions.add: category is inferred from the action (ValueError for
\* an unknown action, before anything is written); the row is inserted as
\* given, with no check on quantity, price or fees beyond the CHECK
\* constraints of the schema.
add(datetime_str, action, symbol, quantity, price, fees) ==
    LET category == infer_category(action)
        row == [id |-> sqlite_sequence + 1,
                datetime |-> datetime_str, action |-> action, symbol |-> symbol,
                quantity |-> quantity, price |-> price, fees |-> fees,
                category |-> category]
    IN  IF category = ValueError
        THEN raised' = ValueError /\ UNCHANGED <<table, sqlite_sequence>>
        ELSE IF ~ check_constraints(row)
        THEN raised' = IntegrityError /\ UNCHANGED <<table, sqlite_sequence>>
        ELSE /\ table' = Append(table, row)
             /\ sqlite_sequence' = sqlite_sequence + 1
             /\ raised' = None

\* db.transactions.delete
delete(tx_id) ==
    /\ table' = SelectSeq(table, LAMBDA row : row.id # tx_id)
    /\ raised' = None
    /\ UNCHANGED sqlite_sequence

\* db.transactions.update: fields is the dict of the keyword arguments.  No
\* fields: returns False.  An action among the fields has its category
\* inferred (ValueError for an unknown action, before anything is written) in
\* place of any category given; the one UPDATE statement then sets all the
\* fields of the row with that id, or fails as a whole on a CHECK constraint.
update(tx_id, fields) ==
    LET category == infer_category(fields.action)
        with_category ==
            IF "action" \in DOMAIN fields
            THEN ("category" :> category) @@ fields ELSE fields
        Updated(row) == IF row.id = tx_id THEN with_category @@ row ELSE row
        updated == [i \in 1..Len(table) |-> Updated(table[i])]
    IN  IF DOMAIN fields = {}
        THEN raised' = None /\ UNCHANGED <<table, sqlite_sequence>>
        ELSE IF "action" \in DOMAIN fields /\ category = ValueError
        THEN raised' = ValueError /\ UNCHANGED <<table, sqlite_sequence>>
        ELSE IF \E i \in 1..Len(updated) : ~ check_constraints(updated[i])
        THEN raised' = IntegrityError /\ UNCHANGED <<table, sqlite_sequence>>
        ELSE /\ table' = updated
             /\ raised' = None
             /\ UNCHANGED sqlite_sequence

\* db.transactions.query(category_in=..., action_in=..., limit=...): the rows
\* that pass the filters (an empty filter passes every row), ORDER BY datetime
\* DESC.  SQL leaves the order of rows with equal datetime open (a backward
\* scan of idx_tx_datetime and a sort of a filtered scan give different
\* ones), so query is the set of the lists it can return.  The limit is
\* above the size of the table.
query(category_in, action_in) ==
    LET Passes(r) == /\ category_in # {} => r.category \in category_in
                     /\ action_in # {} => r.action \in action_in
        matching == SelectSeq(table, Passes)
        n == Len(matching)
        orders == {p \in [1..n -> 1..n] :
                     /\ \A i \in 1..n : \A j \in 1..n : i # j => p[i] # p[j]
                     /\ \A i \in 1..(n - 1) :
                          matching[p[i]].datetime >= matching[p[i + 1]].datetime}
    IN  {[i \in 1..n |-> matching[p[i]]] : p \in orders}

\* ------------------------------------------- services/_legacy/converters.py

\* _TYPE_MAP.get(action, (TransactionType.STOCK, None))
TYPE_MAP(action) ==
    CASE action = "BUY"         -> <<"stock", "buy">>
      [] action = "SELL"        -> <<"stock", "sell">>
      [] action = "STO"         -> <<"option", "sell_put">>
      [] action = "STO_CALL"    -> <<"option", "sell_call">>
      [] action = "STC"         -> <<"option", "buy_put">>
      [] action = "BTC"         -> <<"option", "buy_put">>
      [] action = "BTO_CALL"    -> <<"option", "buy_call">>
      [] action = "ASSIGNMENT"  -> <<"stock", "assignment">>
      [] action = "CALLED_AWAY" -> <<"stock", "called_away">>
      [] OTHER                  -> <<"stock", None>>

\* dict_to_transaction: a stored row -> legacy Transaction.
\* amount > 0 is an expense, amount < 0 an income.  Every row read from the
\* table carries a numeric quantity, price and fees; the subcategory of an
\* INCOME / EXPENSE row is not kept in the table of the model ("other").
dict_to_transaction(d) ==
    LET action  == d.action
        tx_type == IF action = "EXPENSE" THEN "expense"
                   ELSE IF action = "INCOME" THEN "income"
                   ELSE TYPE_MAP(action)[1]
        subtype == IF action \in {"EXPENSE", "INCOME"} THEN "other"
                   ELSE TYPE_MAP(action)[2]
        qty     == d.quantity
        price   == d.price
        amount  ==
            IF tx_type = "option"
            THEN (IF subtype \in {"sell_put", "sell_call"} THEN -1 ELSE 1)
                 * price * qty * 100
            ELSE IF tx_type = "stock"
            THEN (IF subtype \in {"sell", "called_away"}
                  THEN -(price * qty) ELSE price * qty)
            ELSE price * qty
    IN  [type |-> tx_type, subtype |-> subtype, date |-> DateOf(d.datetime),
         amount |-> amount, symbol |-> d.symbol, quantity |-> d.quantity,
         price |-> d.price, fees |-> d.fees, option_direction |-> None]

\* [dict_to_transaction(t) for t in rows]
to_transactions(rows) == [i \in 1..Len(rows) |-> dict_to_transaction(rows[i])]

\* ------------------------------------------- services/_legacy/option_calc.py

\* the sort keys of key=lambda x: x.date
tx_dates(s) == [i \in 1..Len(s) |-> s[i].date]

\* OptionCalculator.__init__
OptionCalculator(transactions) ==
    [transactions |-> sorted(transactions, tx_dates(transactions))]

\* A direction that takes only buy_put, not buy_call, as a buy.
option_leg_direction_puts_only(t) ==
    IF t.option_direction # None /\ t.option_direction # 0
    THEN t.option_direction
    ELSE IF t.subtype = "buy_put" THEN 1 ELSE -1

\* direction of one option transaction in calculate_option_positions:
\* option_direction when set (truthy), else by subtype.startswith("buy").
option_leg_direction(t) ==
    IF t.option_direction # None /\ t.option_direction # 0
    THEN t.option_direction
    ELSE IF t.subtype \in {"buy_put", "buy_call"} THEN 1 ELSE -1

\* OptionCalculator.calculate_option_positions
calculate_option_positions(self, symbol) ==
    LET IsOpt(t) == t.symbol = symbol /\ t.type = "option"
        tx == SelectSeq(self.transactions, IsOpt)
        PutQty(t)  == IF t.subtype \in {"sell_put", "buy_put"}
                      THEN option_leg_direction(t) * t.quantity ELSE 0
        CallQty(t) == IF t.subtype \in {"sell_call", "buy_call"}
                      THEN option_leg_direction(t) * t.quantity ELSE 0
        put_qty  == SeqSum([i \in 1..Len(tx) |-> PutQty(tx[i])])
        call_qty == SeqSum([i \in 1..Len(tx) |-> CallQty(tx[i])])
    IN  [put |-> put_qty, call |-> call_qty,
         put_direction  |-> IF put_qty >= 0 THEN 1 ELSE -1,
         call_direction |-> IF call_qty >= 0 THEN 1 ELSE -1]

\* An option P&L that sums the signed amounts without negating them.
calculate_option_pnl_unsigned(self, symbol) ==
    LET IsOpt(t) == t.symbol = symbol /\ t.type = "option"
        tx == SelectSeq(self.transactions, IsOpt)
        Amount(t) == t.amount
    IN  [total_pnl |-> SeqSum([i \in 1..Len(tx) |-> Amount(tx[i])])]

\* OptionCalculator.calculate_option_pnl
calculate_option_pnl(self, symbol) ==
    LET IsOpt(t) == t.symbol = symbol /\ t.type = "option"
        tx == SelectSeq(self.transactions, IsOpt)
        NegAmount(t) == -t.amount
    IN  [total_pnl |-> SeqSum([i \in 1..Len(tx) |-> NegAmount(tx[i])])]

\* A summary that takes the option transactions of every symbol, whatever
\* symbol is asked for.
get_premiums_summary_unfiltered(self, symbol) ==
    LET IsOpt(t) == t.type = "option"
        tx == SelectSeq(self.transactions, IsOpt)
        Collected(t) == IF t.amount < 0 THEN -t.amount ELSE 0
        Paid(t)      == IF t.amount > 0 THEN t.amount ELSE 0
        collected == SeqSum([i \in 1..Len(tx) |-> Collected(tx[i])])
        paid      == SeqSum([i \in 1..Len(tx) |-> Paid(tx[i])])
    IN  [total_collected |-> collected, total_paid |-> paid,
         net_premium |-> collected - paid]

\* OptionCalculator.get_premiums_summary (symbol = None: every symbol)
get_premiums_summary(self, symbol) ==
    LET OfSymbol(t) == t.symbol = symbol
        tx1 == IF symbol # None THEN SelectSeq(self.transactions, OfSymbol)
               ELSE self.transactions
        IsOpt(t) == t.type = "option"
        tx == SelectSeq(tx1, IsOpt)
        Collected(t) == IF t.amount < 0 THEN -t.amount ELSE 0
        Paid(t)      == IF t.amount > 0 THEN t.amount ELSE 0
        collected == SeqSum([i \in 1..Len(tx) |-> Collected(tx[i])])
        paid      == SeqSum([i \in 1..Len(tx) |-> Paid(tx[i])])
    IN  [total_collected |-> collected, total_paid |-> paid,
         net_premium |-> collected - paid]

\* -------------------------------------------- services/_legacy/wheel_calc.py

\* WheelStrategyCalculator.__init__
WheelStrategyCalculator(transactions) ==
    [transactions |-> sorted(transactions, tx_dates(transactions)),
     option_calc  |-> OptionCalculator(transactions)]

IsStockBuy(t)  == t.type = "stock" /\ t.subtype \in {"buy", "assignment"}

IsStockSell(t) == t.type = "stock" /\ t.subtype \in {"sell", "called_away"}

\* A closed-position test that lets a flat position (0 shares) through.
position_closed_strict(current_shares) == current_shares < 0

\* The closed-position test of calculate_adjusted_cost_basis.
position_closed(current_shares) == current_shares <= 0

\* A net cost that subtracts the signed option amounts, so that premium
\* collected raises the cost (the formula of src/calculator.py).
net_cost_premium_added(stock_buy, premiums_from_options, fees_paid) ==
    stock_buy - premiums_from_options + fees_paid

\* net_cost of calculate_adjusted_cost_basis: option amounts are signed
\* (income is negative), so adding them subtracts the net premium.
net_cost_of(stock_buy, premiums_from_options, fees_paid) ==
    stock_buy + premiums_from_options + fees_paid

\* WheelStrategyCalculator.calculate_adjusted_cost_basis
calculate_adjusted_cost_basis(self, symbol) ==
    LET OfSymbol(t) == t.symbol = symbol
        tx == SelectSeq(self.transactions, OfSymbol)
        OptAmount(t) == IF t.type = "option" THEN t.amount ELSE 0
        BuyAmount(t) == IF IsStockBuy(t) THEN t.amount ELSE 0
        Fees(t)      == t.fees
        BuyQty(t)    == IF IsStockBuy(t) THEN t.quantity ELSE 0
        SellQty(t)   == IF IsStockSell(t) THEN t.quantity ELSE 0
        stock_buy             == SeqSum([i \in 1..Len(tx) |-> BuyAmount(tx[i])])
        premiums_from_options == SeqSum([i \in 1..Len(tx) |-> OptAmount(tx[i])])
        fees_paid             == SeqSum([i \in 1..Len(tx) |-> Fees(tx[i])])
        shares_bought         == SeqSum([i \in 1..Len(tx) |-> BuyQty(tx[i])])
        shares_sold           == SeqSum([i \in 1..Len(tx) |-> SellQty(tx[i])])
        current_shares        == shares_bought - shares_sold
        net_cost == net_cost_of(stock_buy, premiums_from_options, fees_paid)
    IN  IF position_closed(current_shares)
        THEN [current_shares |-> 0, adjusted_cost |-> Quot(0, 1),
              total_premiums |-> premiums_from_options, cost_basis |-> 0,
              option_positions |->
                  calculate_option_positions(self.option_calc, symbol)]
        ELSE [current_shares |-> current_shares,
              adjusted_cost |-> Quot(net_cost, current_shares),
              total_premiums |-> premiums_from_options,
              cost_basis |-> net_cost,
              option_positions |->
                  calculate_option_positions(self.option_calc, symbol)]

\* An unrealized P&L with the operands swapped.
unrealized_reversed(market_value, basis) == basis.cost_basis - market_value

\* unrealized_pnl of calculate_unrealized_pnl for an open position
unrealized_of(market_value, basis) == market_value - basis.cost_basis

\* WheelStrategyCalculator.calculate_unrealized_pnl
calculate_unrealized_pnl(self, symbol, current_price) ==
    LET basis == calculate_adjusted_cost_basis(self, symbol)
        market_value == basis.current_shares * current_price
    IN  IF basis.current_shares <= 0
        THEN [unrealized_pnl |-> 0, current_shares |-> 0, market_value |-> 0,
              option_positions |-> basis.option_positions]
        ELSE [unrealized_pnl |-> unrealized_of(market_value, basis),
              market_value |-> market_value,
              current_shares |-> basis.current_shares,
              adjusted_cost |-> basis.adjusted_cost,
              cost_basis |-> basis.cost_basis,
              option_positions |-> basis.option_positions]

\* A realized P&L that forgets the fees.
realized_total_fees_ignored(stock_pnl, option_pnl, fees) == stock_pnl + option_pnl

\* realized_pnl of calculate_realized_pnl
realized_total(stock_pnl, option_pnl, fees) == stock_pnl + option_pnl - fees

\* WheelStrategyCalculator.calculate_realized_pnl (symbol = None: every symbol)
calculate_realized_pnl(self, symbol) ==
    LET OfSymbol(t) == t.symbol = symbol
        tx == IF symbol # None THEN SelectSeq(self.transactions, OfSymbol)
              ELSE self.transactions
        OptPnl(t)   == IF t.type = "option" THEN -t.amount ELSE 0
        Proceeds(t) == IF IsStockSell(t) THEN -t.amount ELSE 0
        Cost(t)     == IF IsStockBuy(t) THEN t.amount ELSE 0
        Fees(t)     == t.fees
        option_pnl          == SeqSum([i \in 1..Len(tx) |-> OptPnl(tx[i])])
        stock_sale_proceeds == SeqSum([i \in 1..Len(tx) |-> Proceeds(tx[i])])
        stock_purchase_cost == SeqSum([i \in 1..Len(tx) |-> Cost(tx[i])])
        fees                == SeqSum([i \in 1..Len(tx) |-> Fees(tx[i])])
        stock_pnl == stock_sale_proceeds - stock_purchase_cost
    IN  realized_total(stock_pnl, option_pnl, fees)

\* An Optional[float] price is <<>> for None and <<p>> for the float p.
\* `if current_price:` is false for None and for 0.
price_truthy(current_price) == current_price # <<>> /\ current_price[1] # 0

\* WheelStrategyCalculator.calculate_campaign_summary
calculate_campaign_summary(self, symbol, current_price) ==
    LET basis == calculate_adjusted_cost_basis(self, symbol)
        option_pnl == calculate_option_pnl(self.option_calc, symbol)
        unrealized ==
            IF price_truthy(current_price)
            THEN calculate_unrealized_pnl(self, symbol,
                                          current_price[1]).unrealized_pnl
            ELSE 0
    IN  [symbol |-> symbol,
         current_shares |-> basis.current_shares,
         adjusted_cost |-> basis.adjusted_cost,
         cost_basis |-> basis.cost_basis,
         total_premiums |-> basis.total_premiums,
         option_pnl |-> option_pnl.total_pnl,
         unrealized_pnl |-> unrealized,
         total_pnl |-> option_pnl.total_pnl + unrealized,
         current_price |-> current_price,
         option_positions |-> basis.option_positions]

\* WheelStrategyCalculator.get_wheel_cycle_info
get_wheel_cycle_info(self, symbol) ==
    LET OfSymbol(t) == t.symbol = symbol
        of_symbol == SelectSeq(self.transactions, OfSymbol)
        tx == sorted(of_symbol, tx_dates(of_symbol))
        Delta(t) == IF t.type # "stock" THEN 0
                    ELSE IF t.subtype \in {"buy", "assignment"} THEN t.quantity
                    ELSE IF t.subtype \in {"sell", "called_away"} THEN -t.quantity
                    ELSE 0
        stock_position == SeqSum([i \in 1..Len(tx) |-> Delta(tx[i])])
    IN  IF tx = <<>> THEN [status |-> "empty"]
        ELSE IF stock_position > 0
        THEN [status |-> "holding", shares |-> stock_position]
        ELSE [status |-> "waiting"]

\* ------------------------------------------ services/_legacy/portfolio_calc.py

\* PortfolioCalculator.__init__
PortfolioCalculator(transactions) ==
    [transactions |-> transactions,
     wheel_calculator |-> WheelStrategyCalculator(transactions)]

\* set(t.symbol for t in self.transactions if t.symbol)
portfolio_symbols(self) ==
    {self.transactions[i].symbol : i \in 1..Len(self.transactions)} \ {None}

\* PortfolioCalculator.get_all_positions
get_all_positions(self) ==
    [symbol \in portfolio_symbols(self) |->
        LET basis == calculate_adjusted_cost_basis(self.wheel_calculator, symbol)
        IN  [symbol |-> symbol, shares |-> basis.current_shares,
             adjusted_cost |-> basis.adjusted_cost,
             option_positions |-> basis.option_positions]]

\* A lookup that prices a symbol missing from the dict at 1 instead of None.
price_lookup_defaulting(prices, symbol) ==
    IF prices.none \/ DOMAIN prices.dict = {} THEN <<>>
    ELSE IF symbol \in DOMAIN prices.dict THEN <<prices.dict[symbol]>>
    ELSE <<1>>

\* A prices argument is None ([none |-> TRUE]) or a dict ([none |-> FALSE,
\* dict |-> a function from some symbols to their price]).
\* `prices.get(symbol) if prices else None`: None and {} are falsy.
price_lookup(prices, symbol) ==
    IF prices.none \/ DOMAIN prices.dict = {} THEN <<>>
    ELSE IF symbol \in DOMAIN prices.dict THEN <<prices.dict[symbol]>>
    ELSE <<>>

\* PortfolioCalculator.get_portfolio_summary
get_portfolio_summary(self, prices) ==
    LET symbols == portfolio_symbols(self)
        \* the dict is filled once, by the loop over the symbols
        holdings == <<>> @@ [symbol \in symbols |->
                        calculate_campaign_summary(self.wheel_calculator, symbol,
                                                   price_lookup(prices, symbol))]
        total_realized   == DictSum([symbol \in symbols |->
                                        holdings[symbol].option_pnl])
        total_unrealized == DictSum([symbol \in symbols |->
                                        holdings[symbol].unrealized_pnl])
    IN  [holdings |-> holdings,
         total_realized_pnl |-> total_realized,
         total_unrealized_pnl |-> total_unrealized,
         total_pnl |-> total_realized + total_unrealized]

\* The value of one holding h in get_asset_allocation and
\* get_total_market_value: its "market_value" when h has that key, else
\* current_shares * current_price when the price is truthy, else 0.
holding_value(h) ==
    IF "market_value" \in DOMAIN h THEN h.market_value
    ELSE IF price_truthy(h.current_price)
    THEN h.current_shares * h.current_price[1]
    ELSE 0

\* PortfolioCalculator.get_asset_allocation: {} when the total value is 0,
\* else value / total_value * 100 per holding (a fraction).
get_asset_allocation(self, prices) ==
    LET summary == get_portfolio_summary(self, prices)
        holdings == summary.holdings
        values == <<>> @@ [symbol \in DOMAIN holdings |->
                              holding_value(holdings[symbol])]
        total_value == DictSum(values)
    IN  IF total_value = 0 THEN <<>>
        ELSE [symbol \in DOMAIN holdings |->
                IF total_value > 0
                THEN Quot(values[symbol] * 100, total_value)
                ELSE Quot(0, 1)]

\* PortfolioCalculator.get_total_market_value
get_total_market_value(self, prices) ==
    LET summary == get_portfolio_summary(self, prices)
        holdings == summary.holdings
    IN  DictSum([symbol \in DOMAIN holdings |-> holding_value(holdings[symbol])])

\* --------------------------------- services/investing/strategies/base.py

\* BaseStrategyCalculator.compute_stock_cost
compute_stock_cost(symbol, transactions) ==
    LET Cost(t) == IF t.symbol = symbol /\ t.action \in {"BUY", "ASSIGNMENT"}
                   THEN t.price * t.quantity ELSE 0
    IN  SeqSum([i \in 1..Len(transactions) |-> Cost(transactions[i])])

\* A share count that ignores a sale listed before any purchase.
compute_current_shares_sales_after_buy(symbol, transactions) ==
    LET IsBuy(t)  == t.symbol = symbol /\ t.action \in {"BUY", "ASSIGNMENT"}
        IsSell(t) == t.symbol = symbol /\ t.action \in {"SELL", "CALLED_AWAY"}
        Bought(i) == IF IsBuy(transactions[i]) THEN transactions[i].quantity ELSE 0
        Sold(i)   == IF /\ IsSell(transactions[i])
                        /\ \E j \in 1..(i - 1) : IsBuy(transactions[j])
                     THEN transactions[i].quantity ELSE 0
    IN  SeqSum([i \in 1..Len(transactions) |-> Bought(i)])
          - SeqSum([i \in 1..Len(transactions) |-> Sold(i)])

\* BaseStrategyCalculator.compute_current_shares
compute_current_shares(symbol, transactions) ==
    LET Bought(t) == IF t.symbol = symbol /\ t.action \in {"BUY", "ASSIGNMENT"}
                     THEN t.quantity ELSE 0
        Sold(t)   == IF t.symbol = symbol /\ t.action \in {"SELL", "CALLED_AWAY"}
                     THEN t.quantity ELSE 0
        bought == SeqSum([i \in 1..Len(transactions) |-> Bought(transactions[i])])
        sold   == SeqSum([i \in 1..Len(transactions) |-> Sold(transactions[i])])
    IN  bought - sold

\* the sort keys of key=lambda t: t["datetime"]
row_datetimes(s) == [i \in 1..Len(s) |-> s[i]["datetime"]]

\* The running totals (rsc, rp, rf, rs) of cost_timeline after the first k
\* rows of sym_txs.
RECURSIVE timeline_running(_, _)
timeline_running(sym_txs, k) ==
    IF k = 0 THEN [rsc |-> 0, rp |-> 0, rf |-> 0, rs |-> 0]
    ELSE LET prev == timeline_running(sym_txs, k - 1)
             t == sym_txs[k]
             a == t.action
             q == t.quantity
             p == t.price
             f == t.fees
         IN  [rsc |-> IF a \in {"BUY", "ASSIGNMENT"} THEN prev.rsc + p * q
                      ELSE IF a \in {"SELL", "CALLED_AWAY"} THEN prev.rsc - p * q
                      ELSE prev.rsc,
              rs  |-> IF a \in {"BUY", "ASSIGNMENT"} THEN prev.rs + q
                      ELSE IF a \in {"SELL", "CALLED_AWAY"} THEN prev.rs - q
                      ELSE prev.rs,
              rp  |-> IF a \in {"BUY", "ASSIGNMENT"} THEN prev.rp
                      ELSE IF a \in {"SELL", "CALLED_AWAY"} THEN prev.rp
                      ELSE IF a \in OPTION_ACTIONS
                      THEN (IF a \in {"STO", "STO_CALL"}
                            THEN prev.rp + p * q * 100
                            ELSE prev.rp - p * q * 100)
                      ELSE prev.rp,
              rf  |-> prev.rf + f]

\* A test that asks for more than one running share.
emits_point_above_one(rs) == rs > 1

\* `if rs > 0:` of cost_timeline: a point is appended after a row that leaves
\* running shares.
emits_point(rs) == rs > 0

\* The points cost_timeline has appended after the first k rows of sym_txs.
RECURSIVE timeline_points(_, _)
timeline_points(sym_txs, k) ==
    IF k = 0 THEN <<>>
    ELSE LET r == timeline_running(sym_txs, k)
             t == sym_txs[k]
         IN  IF emits_point(r.rs)
             THEN Append(timeline_points(sym_txs, k - 1),
                         [date |-> DateOf(t["datetime"]),
                          cost_per_share |-> Round2(Quot(r.rsc - r.rp + r.rf, r.rs)),
                          action |-> t.action])
             ELSE timeline_points(sym_txs, k - 1)

\* A replay that takes the rows of symbol newest first.
timeline_replay_newest_first(symbol, transactions) ==
    LET OfSymbol(t) == t.symbol = symbol
        of_symbol == SelectSeq(transactions, OfSymbol)
        oldest_first == sorted(of_symbol, row_datetimes(of_symbol))
        n == Len(oldest_first)
    IN  [i \in 1..n |-> oldest_first[n + 1 - i]]

\* sym_txs of cost_timeline: the rows of symbol, sorted by datetime (stable:
\* rows of one datetime keep the order they have in transactions).
timeline_replay(symbol, transactions) ==
    LET OfSymbol(t) == t.symbol = symbol
        of_symbol == SelectSeq(transactions, OfSymbol)
    IN  sorted(of_symbol, row_datetimes(of_symbol))

\* BaseStrategyCalculator.cost_timeline
cost_timeline(symbol, transactions) ==
    LET sym_txs == timeline_replay(symbol, transactions)
    IN  timeline_points(sym_txs, Len(sym_txs))

\* BaseStrategyCalculator.compute_days_held; now is the day datetime.now()
\* reads from the system clock at the call.
compute_days_held(symbol, transactions, now) ==
    LET dates == {DateOf(transactions[i]["datetime"]) :
                    i \in {j \in 1..Len(transactions) :
                             transactions[j].symbol = symbol}}
        first == CHOOSE d \in dates : \A e \in dates : d <= e
    IN  IF dates = {} THEN 0 ELSE now - first

\* BaseStrategyCalculator.annualized_return, in tenths of a percent
annualized_return(net_premium, cost_basis, days_held) ==
    IF cost_basis <= 0 \/ days_held <= 0 THEN 0
    ELSE Round1(Quot(net_premium * 365 * 100, cost_basis * days_held))

\* BaseStrategyCalculator.compute_dividends
compute_dividends(symbol, transactions) ==
    LET Paid(t) == IF t.symbol = symbol /\ t.action = "DIVIDEND"
                   THEN t.price * t.quantity ELSE 0
    IN  SeqSum([i \in 1..Len(transactions) |-> Paid(transactions[i])])

\* The rows of symbol with an option action (opts).
option_rows(symbol, transactions) ==
    SelectSeq(transactions,
              LAMBDA t : t.symbol = symbol /\ t.action \in OPTION_ACTIONS)

\* (last - first).days for first = min(dates), last = max(dates), dates being
\* the datetime[:10] of a non-empty list of rows.
days_spanned(rows) ==
    LET dates == {DateOf(rows[i]["datetime"]) : i \in 1..Len(rows)}
        first == CHOOSE d \in dates : \A e \in dates : d <= e
        last  == CHOOSE d \in dates : \A e \in dates : e <= d
    IN  last - first

\* max(days / 7, 1)
weeks_of(days) == IF days > 7 THEN Quot(days, 7) ELSE Quot(1, 1)

\* BaseStrategyCalculator.compute_option_weeks
compute_option_weeks(symbol, transactions) ==
    LET opts == option_rows(symbol, transactions)
    IN  IF opts = <<>> THEN Quot(0, 1) ELSE weeks_of(days_spanned(opts))

\* BaseStrategyCalculator.recovery_prediction; option_weeks is the float
\* compute_option_weeks returns (a fraction with den > 0).  The result is
\* None (none = TRUE) or the dict; a float is a fraction [num, den], the
\* weeks_to_zero of the else-branch is the int 0.
recovery_prediction(stock_cost, net_premium, dividends, option_weeks) ==
    IF stock_cost <= 0 \/ option_weeks.num <= 0
    THEN [none |-> TRUE]
    ELSE LET avg_weekly == Quot(net_premium * option_weeks.den, option_weeks.num)
             net_basis  == stock_cost - net_premium - dividends
             progress   == IF net_premium + dividends < stock_cost
                           THEN Quot(net_premium + dividends, stock_cost)
                           ELSE Quot(1, 1)
             weeks_to_zero ==
                 IF avg_weekly.num > 0 /\ net_basis > 0
                 THEN Quot(net_basis * avg_weekly.den, avg_weekly.num)
                 ELSE Quot(0, 1)
         IN  [none |-> FALSE, avg_weekly |-> avg_weekly,
              weeks_to_zero |-> weeks_to_zero,
              months_to_zero |-> Quot(weeks_to_zero.num * 100,
                                      weeks_to_zero.den * 433),
              progress |-> progress, net_basis |-> net_basis]

\* float("inf")
inf == [inf |-> TRUE]

\* BaseStrategyCalculator.weeks_to_zero: a finite float (inf = FALSE, the
\* fraction num / den) or float("inf").
weeks_to_zero(symbol, transactions, cost_basis, net_premium, dividends) ==
    LET opts == option_rows(symbol, transactions)
    IN  IF opts # <<>> /\ cost_basis > 0
        THEN LET weeks_active == weeks_of(days_spanned(opts))
                 avg_weekly == Quot(net_premium * weeks_active.den,
                                    weeks_active.num)
                 remaining  == cost_basis - net_premium - dividends
             IN  IF avg_weekly.num > 0
                 THEN [inf |-> FALSE, num |-> remaining * avg_weekly.den,
                       den |-> avg_weekly.num]
                 ELSE inf
        ELSE inf

\* abs(x)
abs(x) == IF x < 0 THEN -x ELSE x

\* A net cash flow that adds the fees of a sale to its premium.
trade_net_fees_added(t) ==
    LET premium == t.price * t.quantity * 100
    IN  IF t.action \in {"STO", "STO_CALL"}
        THEN premium + t.fees ELSE -(premium + t.fees)

\* net of one option row in trade_pnl_series: premium - fees for a sale
\* (STO, STO_CALL), -(premium + fees) for any other option action.
trade_net(t) ==
    LET premium == t.price * t.quantity * 100
    IN  IF t.action \in {"STO", "STO_CALL"}
        THEN premium - t.fees ELSE -(premium + t.fees)

\* The entries trade_pnl_series has appended after the first k rows of
\* option_txs; base_date is a day, raw_cost the stock cost.
RECURSIVE trade_entries(_, _, _, _)
trade_entries(option_txs, k, base_date, raw_cost) ==
    IF k = 0 THEN <<>>
    ELSE LET prev == trade_entries(option_txs, k - 1, base_date, raw_cost)
             t == option_txs[k]
             date == DateOf(t["datetime"])
             premium == t.price * t.quantity * 100
             net == trade_net(t)
             cumulative == IF k = 1 THEN net ELSE prev[k - 1].cumulative + net
             days == IF date - base_date > 1 THEN date - base_date ELSE 1
         IN  Append(prev,
                    [date |-> date, action |-> t.action,
                     quantity |-> t.quantity, price_per_contract |-> t.price,
                     total_premium |-> premium, fees |-> t.fees,
                     net_income |-> net,
                     is_income |-> t.action \in {"STO", "STO_CALL"},
                     single_return_pct |->
                         IF raw_cost > 0
                         THEN Round2(Quot(abs(net) * 100, raw_cost)) ELSE 0,
                     annualized_pct |->
                         IF raw_cost > 0
                         THEN Round1(Quot(abs(net) * 365 * 100, raw_cost * days))
                         ELSE 0,
                     cumulative |-> cumulative])

\* `if not option_txs or shares <= 0:` of trade_pnl_series
series_withheld(option_txs, shares) == option_txs = <<>> \/ shares <= 0

\* BaseStrategyCalculator.trade_pnl_series: (trades, cumulative_premium); now
\* is the day datetime.now() reads when symbol has no BUY / ASSIGNMENT row.
trade_pnl_series(symbol, transactions, now) ==
    LET sym_txs == timeline_replay(symbol, transactions)
        option_txs == SelectSeq(sym_txs, LAMBDA t : t.action \in OPTION_ACTIONS)
        shares == compute_current_shares(symbol, transactions)
        buy_dates == {DateOf(sym_txs[i]["datetime"]) :
                        i \in {j \in 1..Len(sym_txs) :
                                 sym_txs[j].action \in {"BUY", "ASSIGNMENT"}}}
        base_date == IF buy_dates # {}
                     THEN CHOOSE d \in buy_dates : \A e \in buy_dates : d <= e
                     ELSE now
        raw_cost == compute_stock_cost(symbol, transactions)
        trades == trade_entries(option_txs, Len(option_txs), base_date, raw_cost)
    IN  IF series_withheld(option_txs, shares)
        THEN [trades |-> <<>>, total |-> 0]
        ELSE [trades |-> trades, total |-> trades[Len(trades)].cumulative]

\* ------------------- services/investing/strategies/wheel/calculator.py

\* WheelCalculator.symbol_metrics; now is the clock reading of its call of
\* compute_days_held.
symbol_metrics(symbol, transactions, legacy_calc, now) ==
    LET basis == calculate_adjusted_cost_basis(legacy_calc, symbol)
        prem  == get_premiums_summary(legacy_calc.option_calc, symbol)
        cycle == get_wheel_cycle_info(legacy_calc, symbol)
        np_   == prem.net_premium
        cb    == basis.cost_basis
        days  == compute_days_held(symbol, transactions, now)
        ann   == annualized_return(np_, cb, days)
    IN  [cost_basis |-> cb, net_premium |-> np_,
         adjusted_cost |-> basis.adjusted_cost, shares |-> basis.current_shares,
         collected |-> prem.total_collected, paid |-> prem.total_paid,
         status |-> cycle.status, annualized_pct |-> ann, days_held |-> days]

\* WheelCalculator.get_strategy_symbols (as a set; the list is sorted)
get_strategy_symbols(transactions) ==
    {transactions[i].symbol :
        i \in {j \in 1..Len(transactions) :
                 /\ transactions[j].action \in OPTION_ACTIONS
                 /\ transactions[j].symbol # None}}

\* ---------------------- services/investing/strategies/wheel/service.py

\* WheelService.load: all_relevant for each list query can return (the empty
\* list where load returns None).
load_all_relevant ==
    {LET syms == get_strategy_symbols(tx_raw)
         Relevant(t) == /\ t.symbol \in syms
                        /\ t.action \in OPTION_ACTIONS \cup STOCK_ACTIONS
                                           \cup {"DIVIDEND"}
     IN  SelectSeq(tx_raw, Relevant) :
        tx_raw \in query({"TRADING"},
                         OPTION_ACTIONS \cup STOCK_ACTIONS \cup YIELD_ACTIONS)}

\* ---------------------------------------------------------- specification

\* One argument list of db.transactions.add.
Args(datetime_str, action, symbol, quantity, price, fees) ==
    [datetime |-> datetime_str, action |-> action, symbol |-> symbol,
     quantity |-> quantity, price |-> price, fees |-> fees]

\* The calls of db.transactions.add in the model.  Symbol "X" is traded with
\* every stock, option and dividend action, with one or two shares or
\* contracts, with and without fees, on two days (10 and 11 are two times of
\* day 1, 20 is day 2, 90 is day 9, more than a week later) and once at a
\* negative price; symbol "Y" is bought for more than the premium of the put
\* written on it; a deposit carries no symbol.
Inputs ==
    { Args(10, "BUY",         "X", 2, 2, 1),
      Args(20, "BUY",         "X", 1, 3, 0),
      Args(11, "SELL",        "X", 1, 3, 0),
      Args(20, "SELL",        "X", 2, 2, 1),
      Args(10, "ASSIGNMENT",  "X", 1, 3, 0),
      Args(20, "CALLED_AWAY", "X", 1, 2, 1),
      Args(10, "STO",         "X", 1, 3, 0),
      Args(20, "STO_CALL",    "X", 2, 2, 1),
      Args(20, "STC",         "X", 1, 3, 0),
      Args(11, "BTC",         "X", 1, 2, 1),
      Args(90, "BTO_CALL",    "X", 1, 3, 0),
      Args(20, "STO",         "X", 1, -1, 0),
      Args(20, "DIVIDEND",    "X", 2, 1, 0),
      Args(10, "BUY",         "Y", 1, 150, 1),
      Args(10, "STO",         "Y", 1, 1, 1),
      Args(11, "DEPOSIT",     None, 1, 5, 1) }

Symbols == {"X", "Y"}

\* Spot prices handed to calculate_unrealized_pnl.
Prices == {0, 1, 4}

\* The price maps handed to the portfolio calculator: None, the empty dict,
\* one symbol priced, both priced, and a price of 0.
PriceMaps ==
    { [none |-> TRUE],
      [none |-> FALSE, dict |-> <<>>],
      [none |-> FALSE, dict |-> ("X" :> 4)],
      [none |-> FALSE, dict |-> ("X" :> 0)],
      [none |-> FALSE, dict |-> ("Y" :> 1)],
      [none |-> FALSE, dict |-> ("X" :> 4) @@ ("Y" :> 1)],
      [none |-> FALSE, dict |-> ("X" :> 1) @@ ("Y" :> 4)],
      [none |-> FALSE, dict |-> ("X" :> 0) @@ ("Y" :> 4)] }

\* The days on which the system clock is read (on or after the last day of
\* the calls of add).
Clock == {9, 10, 40}

\* No page has loaded the ledger.
NoSession == [started |-> FALSE]

\* The table as _SCHEMA creates it: empty.
Init ==
    /\ table = <<>>
    /\ sqlite_sequence = 0
    /\ raised = None
    /\ session = NoSession

\* The ledger as the trading log fills it.
Next ==
    \E r \in Inputs :
        /\ Len(table) < MaxTx
        /\ add(r.datetime, r.action, r.symbol, r.quantity, r.price, r.fees)
        /\ UNCHANGED session

Spec == Init /\ [][Next]_vars

\* The ledgers the portfolio calculator aggregates: the calls of add that
\* move the shares of X and Y, a put written on Y and the deposit.
PortfolioInputs ==
    {r \in Inputs : r.action \in STOCK_ACTIONS \cup CAPITAL_ACTIONS
                       \/ r.symbol = "Y"}

NextPortfolio ==
    \E r \in PortfolioInputs :
        /\ Len(table) < MaxTx
        /\ add(r.datetime, r.action, r.symbol, r.quantity, r.price, r.fees)
        /\ UNCHANGED session

SpecPortfolio == Init /\ [][NextPortfolio]_vars

\* The calls of add, update and delete on the data layer, legal and not: an
\* add with an unknown action; updates with no fields, with a legal action,
\* with an unknown action next to another field, with a category alone
\* (legal, and outside the schema's CHECK).
CrudInputs ==
    { Args(10, "BUY", "X", 2, 2, 1),
      Args(20, "STO", "X", 1, 3, 0),
      Args(20, "HOLD", "X", 1, 3, 0) }

UpdateFields ==
    { <<>>,
      [action |-> "SELL"],
      [action |-> "HOLD", price |-> 9],
      [category |-> "INCOME"],
      [category |-> "OTHER"] }

TxIds == 1..MaxId

NextCrud ==
    \/ \E r \in CrudInputs :
          /\ sqlite_sequence < MaxId
          /\ add(r.datetime, r.action, r.symbol, r.quantity, r.price, r.fees)
          /\ UNCHANGED session
    \/ \E tx_id \in TxIds : \E fields \in UpdateFields :
          update(tx_id, fields) /\ UNCHANGED session
    \/ \E tx_id \in TxIds : delete(tx_id) /\ UNCHANGED session

SpecCrud == Init /\ [][NextCrud]_vars

\* The ledgers handed to the calculators in different orders: every stock
\* action and four option actions on X, on three days, and a purchase of Y.
OrderInputs ==
    {r \in Inputs :
        <<r.datetime, r.action, r.symbol>> \in
            { <<10, "BUY", "X">>, <<11, "SELL", "X">>,
              <<10, "ASSIGNMENT", "X">>, <<20, "CALLED_AWAY", "X">>,
              <<10, "STO", "X">>, <<20, "STO_CALL", "X">>,
              <<11, "BTC", "X">>, <<90, "BTO_CALL", "X">>,
              <<10, "BUY", "Y">> }}

NextOrder ==
    \E r \in OrderInputs :
        /\ Len(table) < MaxTx
        /\ add(r.datetime, r.action, r.symbol, r.quantity, r.price, r.fees)
        /\ UNCHANGED session

SpecOrder == Init /\ [][NextOrder]_vars

\* The ledger a page loads: a put bought back, a purchase a day later, a
\* call bought more than a week later, and a second symbol.
SessionInputs ==
    {r \in Inputs :
        <<r.datetime, r.action, r.symbol>> \in
            { <<11, "BTC", "X">>, <<20, "BUY", "X">>,
              <<90, "BTO_CALL", "X">>, <<10, "BUY", "Y">> }}

\* The arguments of the calls of a page: two spot prices, three price maps
\* (None, X priced, both priced) and two clock readings.
CallPrices == Prices \ {1}

CallPriceMaps ==
    {prices \in PriceMaps :
        prices.none \/ ("X" \in DOMAIN prices.dict /\ prices.dict["X"] = 4)}

CallClock == Clock \ {10}

\* No call yet.
NoCall == [op |-> None, args |-> <<>>]

\* PortfolioService.load_base: the rows query returns (newest first), the
\* Transaction objects built from them, and PortfolioCalculator(transactions),
\* whose constructor keeps the list and constructs WheelStrategyCalculator and
\* OptionCalculator on it; each of the two calls sorted on the list.
load_base ==
    /\ ~ session.started
    /\ \E tx_raw \in query({"TRADING", "INVESTMENT"}, {}) :
         /\ tx_raw # <<>>
         /\ LET transactions == to_transactions(tx_raw)
                calc == PortfolioCalculator(transactions)
                after_wheel == sorted_argument(transactions,
                                               tx_dates(transactions))
                after_option == sorted_argument(after_wheel,
                                                tx_dates(after_wheel))
            IN  session' = [started |-> TRUE, rows |-> tx_raw,
                            txns |-> after_option, calc |-> calc,
                            last |-> NoCall]
    /\ UNCHANGED <<table, sqlite_sequence, raised>>

\* The query methods of the three calculators and the two series, with the
\* arguments of a call: <<symbol>>, <<symbol, price>>, <<prices>>, <<>> or
\* <<symbol, now>>.
Calls ==
    {[op |-> op, args |-> <<X>>] :
        op \in {"calculate_adjusted_cost_basis", "calculate_realized_pnl",
                "get_wheel_cycle_info", "calculate_option_positions",
                "calculate_option_pnl", "get_premiums_summary",
                "cost_timeline"},
        X \in Symbols}
    \cup {[op |-> op, args |-> <<X, price>>] :
            op \in {"calculate_unrealized_pnl", "calculate_campaign_summary"},
            X \in Symbols, price \in CallPrices}
    \cup {[op |-> op, args |-> <<prices>>] :
            op \in {"get_portfolio_summary", "get_asset_allocation",
                    "get_total_market_value"},
            prices \in CallPriceMaps}
    \cup {[op |-> "get_all_positions", args |-> <<>>]}
    \cup {[op |-> "trade_pnl_series", args |-> <<X, now>>] :
            X \in Symbols, now \in CallClock}

\* What the call op(args) returns in session s.
call_result(s, op, args) ==
    LET wheel == s.calc.wheel_calculator
        option == wheel.option_calc
    IN  CASE op = "calculate_adjusted_cost_basis" ->
               calculate_adjusted_cost_basis(wheel, args[1])
          [] op = "calculate_realized_pnl" ->
               calculate_realized_pnl(wheel, args[1])
          [] op = "get_wheel_cycle_info" ->
               get_wheel_cycle_info(wheel, args[1])
          [] op = "calculate_option_positions" ->
               calculate_option_positions(option, args[1])
          [] op = "calculate_option_pnl" ->
               calculate_option_pnl(option, args[1])
          [] op = "get_premiums_summary" ->
               get_premiums_summary(option, args[1])
          [] op = "calculate_unrealized_pnl" ->
               calculate_unrealized_pnl(wheel, args[1], args[2])
          [] op = "calculate_campaign_summary" ->
               calculate_campaign_summary(wheel, args[1], <<args[2]>>)
          [] op = "get_portfolio_summary" ->
               get_portfolio_summary(s.calc, args[1])
          [] op = "get_asset_allocation" ->
               get_asset_allocation(s.calc, args[1])
          [] op = "get_total_market_value" ->
               get_total_market_value(s.calc, args[1])
          [] op = "get_all_positions" -> get_all_positions(s.calc)
          [] op = "cost_timeline" -> cost_timeline(args[1], s.rows)
          [] op = "trade_pnl_series" ->
               trade_pnl_series(args[1], s.rows, args[2])

\* One call of a query method: it returns call_result; no method assigns to
\* self.transactions, to the list it was given or to a transaction in it.
call_method(op, args) ==
    /\ session.started
    /\ session' = [session EXCEPT !.last = [op |-> op, args |-> args]]
    /\ UNCHANGED <<table, sqlite_sequence, raised>>

NextSession ==
    \/ \E r \in SessionInputs :
          /\ ~ session.started
          /\ Len(table) < MaxTx
          /\ add(r.datetime, r.action, r.symbol, r.quantity, r.price, r.fees)
          /\ UNCHANGED session
    \/ load_base
    \/ \E call \in Calls : call_method(call.op, call.args)

SpecSession == Init /\ [][NextSession]_vars

\* ------------------------------------------------- the calculators in use

\* WheelService.load / PortfolioService.load_base: the stored rows, converted
\* for the legacy calculators.
transactions == to_transactions(table)

wheel_calc == WheelStrategyCalculator(transactions)

portfolio_calc == PortfolioCalculator(transactions)

\* ------------------------------------------- the ledger, from the rows

\* The reference quantities of the ledger, summed directly over stored rows.
RowsOf(rows, X) == SelectSeq(rows, LAMBDA r : r.symbol = X)

\* The sum of Term over the rows of X whose action is in actions.
RECURSIVE SumRows(_, _, _, _)
SumRows(rows, X, actions, term) ==
    IF rows = <<>> THEN 0
    ELSE LET r == Head(rows)
             v == IF r.symbol = X /\ r.action \in actions
                  THEN (CASE term = "quantity" -> r.quantity
                          [] term = "cost"     -> r.price * r.quantity
                          [] term = "premium"  -> r.price * r.quantity * 100
                          [] term = "fees"     -> r.fees)
                  ELSE 0
         IN  v + SumRows(Tail(rows), X, actions, term)

BuyQuantity(rows, X) == SumRows(rows, X, {"BUY", "ASSIGNMENT"}, "quantity")

SellQuantity(rows, X) == SumRows(rows, X, {"SELL", "CALLED_AWAY"}, "quantity")

SharesOf(rows, X) == BuyQuantity(rows, X) - SellQuantity(rows, X)

StockBuyCost(rows, X) == SumRows(rows, X, {"BUY", "ASSIGNMENT"}, "cost")

StockSaleProceeds(rows, X) == SumRows(rows, X, {"SELL", "CALLED_AWAY"}, "cost")

PremiumCollected(rows, X) == SumRows(rows, X, {"STO", "STO_CALL"}, "premium")

PremiumPaid(rows, X) == SumRows(rows, X, {"STC", "BTC", "BTO_CALL"}, "premium")

NetPremium(rows, X) == PremiumCollected(rows, X) - PremiumPaid(rows, X)

FeesTotal(rows, X) == SumRows(rows, X, ALL_ACTIONS, "fees")

HasAction(rows, X, actions) ==
    \E i \in 1..Len(rows) : rows[i].symbol = X /\ rows[i].action \in actions

\* The repository's worked example (amounts in cents): buy 100 @ 110.00,
\* sell 1 call @ 2.60, buy 1 call @ 4.00, sell 1 call @ 2.35, no fees.
WorkedExample ==
    << [datetime |-> 10, action |-> "BUY", symbol |-> "SLV",
        quantity |-> 100, price |-> 11000, fees |-> 0],
       [datetime |-> 20, action |-> "STO_CALL", symbol |-> "SLV",
        quantity |-> 1, price |-> 260, fees |-> 0],
       [datetime |-> 20, action |-> "BTO_CALL", symbol |-> "SLV",
        quantity |-> 1, price |-> 400, fees |-> 0],
       [datetime |-> 20, action |-> "STO_CALL", symbol |-> "SLV",
        quantity |-> 1, price |-> 235, fees |-> 0] >>

WorkedBasis ==
    calculate_adjusted_cost_basis(
        WheelStrategyCalculator(to_transactions(WorkedExample)), "SLV")

\* ------------------------------------------------------------------ claims

C2_ClosedPositionIsZero ==
    \A X \in Symbols :
      SharesOf(table, X) <= 0 =>
        LET basis == calculate_adjusted_cost_basis(wheel_calc, X)
        IN  /\ basis.current_shares = 0
            /\ basis.cost_basis = 0
            /\ basis.adjusted_cost.num = 0

\* X was bought and sold back to exactly zero shares.
C2_Witness ==
    /\ HasAction(table, "X", {"BUY", "ASSIGNMENT"})
    /\ HasAction(table, "X", {"SELL", "CALLED_AWAY"})
    /\ SharesOf(table, "X") = 0

\* C3: no operation that reports a share count (calculate_adjusted_cost_basis,
\* get_all_positions, compute_current_shares, symbol_metrics) ever returns a
\* negative number, also when more shares were sold than bought.
C3_SharesNeverNegative ==
    \A X \in Symbols :
      /\ calculate_adjusted_cost_basis(wheel_calc, X).current_shares >= 0
      /\ X \in portfolio_symbols(portfolio_calc) =>
           get_all_positions(portfolio_calc)[X].shares >= 0
      /\ \A now \in Clock : symbol_metrics(X, table, wheel_calc, now).shares >= 0
      /\ compute_current_shares(X, table) >= 0

\* C4: the reported current_shares of X equals buys/assignments minus
\* sells/called-away exactly, in the legacy calculator and in
\* compute_current_shares, and the two report the same value.
C4_SharesExactAndAgree ==
    \A X \in Symbols :
      LET legacy == calculate_adjusted_cost_basis(wheel_calc, X).current_shares
          dicts  == compute_current_shares(X, table)
      IN  /\ legacy = SharesOf(table, X)
          /\ dicts = SharesOf(table, X)
          /\ legacy = dicts

\* C5: calculate_realized_pnl(X) = (stock sale proceeds - stock purchase
\* cost) + option net P&L (the negated sum of the signed option amounts) - all
\* fees of X; with the symbol omitted the same formula runs over all rows.
C5_RealizedPnl ==
    /\ \A X \in Symbols :
         calculate_realized_pnl(wheel_calc, X)
           = (StockSaleProceeds(table, X) - StockBuyCost(table, X))
             + NetPremium(table, X) - FeesTotal(table, X)
    /\ LET Total(F(_, _)) == SeqSum([i \in 1..Len(table) |->
                                 F(<<table[i]>>, table[i].symbol)])
       IN  calculate_realized_pnl(wheel_calc, None)
             = (Total(StockSaleProceeds) - Total(StockBuyCost))
               + Total(NetPremium) - Total(FeesTotal)

\* X was bought, sold and traded options on, with fees, next to another
\* symbol's rows.
C5_Witness ==
    /\ HasAction(table, "X", {"SELL", "CALLED_AWAY"})
    /\ HasAction(table, "X", OPTION_ACTIONS)
    /\ FeesTotal(table, "X") > 0
    /\ \E i \in 1..Len(table) : table[i].symbol # "X"

\* C6: calculate_unrealized_pnl(X, price) = current_shares * price -
\* cost_basis (the cost basis calculate_adjusted_cost_basis reports) while X
\* holds shares, and 0 when X holds none.
C6_UnrealizedPnl ==
    LET calc == wheel_calc
    IN  \A X \in Symbols :
          LET basis == calculate_adjusted_cost_basis(calc, X)
          IN  \A price \in Prices :
                LET res == calculate_unrealized_pnl(calc, X, price)
                IN  /\ basis.current_shares > 0 =>
                          res.unrealized_pnl
                            = SharesOf(table, X) * price - basis.cost_basis
                    /\ basis.current_shares = 0 => res.unrealized_pnl = 0

\* X holds more than one share and its cost basis differs from its value at
\* every spot price of the model.
C6_Witness ==
    /\ SharesOf(table, "X") > 1
    /\ \A price \in Prices :
         calculate_unrealized_pnl(wheel_calc, "X", price).unrealized_pnl # 0

\* C7: for rows converted by dict_to_transaction, total_collected is the sum
\* of price*quantity*100 over X's STO / STO_CALL rows and total_paid the sum
\* over X's STC / BTC / BTO_CALL rows: each option row counts in the total
\* its action names.
C7_PremiumsByAction ==
    \A X \in Symbols :
      LET prem == get_premiums_summary(wheel_calc.option_calc, X)
      IN  /\ prem.total_collected = PremiumCollected(table, X)
          /\ prem.total_paid = PremiumPaid(table, X)

\* C8: total_collected - total_paid = net_premium, and net_premium equals
\* calculate_option_pnl(X).total_pnl, the negated sum of the signed amounts of
\* X's option transactions.
C8_NetPremiumIsOptionPnl ==
    \A X \in Symbols :
      LET prem == get_premiums_summary(wheel_calc.option_calc, X)
          pnl  == calculate_option_pnl(wheel_calc.option_calc, X)
      IN  /\ prem.total_collected - prem.total_paid = prem.net_premium
          /\ prem.net_premium = pnl.total_pnl
          /\ pnl.total_pnl = NetPremium(table, X)

\* X both collected and paid premium, with a non-zero net.
C8_Witness ==
    /\ HasAction(table, "X", {"STO", "STO_CALL"})
    /\ HasAction(table, "X", {"STC", "BTC", "BTO_CALL"})
    /\ NetPremium(table, "X") # 0

\* C9: calculate_option_positions(X) sums direction * quantity per leg type:
\* STO counts -quantity on puts, STO_CALL -quantity on calls, STC and BTC
\* +quantity on puts and BTO_CALL +quantity on calls.
C9_OptionPositions ==
    \A X \in Symbols :
      LET pos == calculate_option_positions(wheel_calc.option_calc, X)
          Qty(actions) == SumRows(table, X, actions, "quantity")
      IN  /\ pos.put  = Qty({"STC", "BTC"}) - Qty({"STO"})
          /\ pos.call = Qty({"BTO_CALL"}) - Qty({"STO_CALL"})

\* X traded puts and calls, and bought a call.
C9_Witness ==
    /\ HasAction(table, "X", {"STO", "STC", "BTC"})
    /\ HasAction(table, "X", {"STO_CALL"})
    /\ HasAction(table, "X", {"BTO_CALL"})

\* The rows of X in the order cost_timeline replays them.
ReplayOrder(X) == sorted(RowsOf(table, X), row_datetimes(RowsOf(table, X)))

\* For each replay prefix of X that leaves running shares > 0: the adjusted
\* cost calculate_adjusted_cost_basis returns for that prefix, rounded to two
\* decimals.
PrefixAdjustedCosts(X) ==
    LET txs == ReplayOrder(X)
        Prefix(k) == SubSeq(txs, 1, k)
        open == SelectSeq([k \in 1..Len(txs) |-> k],
                          LAMBDA k : SharesOf(Prefix(k), X) > 0)
    IN  [i \in 1..Len(open) |->
            Round2(calculate_adjusted_cost_basis(
                     WheelStrategyCalculator(to_transactions(Prefix(open[i]))),
                     X).adjusted_cost)]

\* C10: every point of cost_timeline(X) has the cost_per_share that
\* calculate_adjusted_cost_basis gives for the same replay prefix (rounded to
\* two decimals), also for prefixes that contain SELL or CALLED_AWAY rows.
C10_TimelineUsesBasisFormula ==
    \A X \in Symbols :
      LET points == cost_timeline(X, table)
      IN  [i \in 1..Len(points) |-> points[i].cost_per_share]
            = PrefixAdjustedCosts(X)

\* The rows of X in the order the legacy calculators replay them: sorted by
\* date (stable, so rows of one day keep their insertion order).
ReplayByDate(X) ==
    LET rows == RowsOf(table, X)
    IN  sorted(rows, [i \in 1..Len(rows) |-> DateOf(rows[i].datetime)])

\* The status get_wheel_cycle_info(X) reports for the first k rows of the
\* replay of X.
StatusAfter(X, k) ==
    get_wheel_cycle_info(
        WheelStrategyCalculator(to_transactions(SubSeq(ReplayByDate(X), 1, k))),
        X).status

\* C11: get_wheel_cycle_info(X) reports exactly one of three statuses: 'empty'
\* exactly when X has no transactions, 'holding' exactly when X's current
\* shares (buys/assignments minus sells/called-away) are > 0, and 'waiting'
\* only when X's current shares are 0 and X has at least one option
\* transaction.
C11_CycleStatus ==
    \A X \in Symbols :
      LET status == get_wheel_cycle_info(wheel_calc, X).status
      IN  /\ status \in {"empty", "holding", "waiting"}
          /\ status = "empty" <=> RowsOf(table, X) = <<>>
          /\ status = "holding" <=> SharesOf(table, X) > 0
          /\ status = "waiting" =>
               /\ SharesOf(table, X) = 0
               /\ HasAction(table, X, OPTION_ACTIONS)

\* C12: along the replay of X's transactions in date order, the status goes
\* from 'waiting' to 'holding' only at a BUY or ASSIGNMENT, from 'holding' to
\* 'waiting' only at a SELL or CALLED_AWAY that brings the current shares to
\* 0, and never changes between the two at an option or dividend row.
C12_CycleTransitions ==
    \A X \in Symbols :
      LET txs == ReplayByDate(X)
      IN  \A k \in 2..Len(txs) :
            LET before == StatusAfter(X, k - 1)
                after  == StatusAfter(X, k)
                action == txs[k].action
            IN  /\ (before = "waiting" /\ after = "holding")
                     => action \in {"BUY", "ASSIGNMENT"}
                /\ (before = "holding" /\ after = "waiting")
                     => /\ action \in {"SELL", "CALLED_AWAY"}
                        /\ SharesOf(SubSeq(txs, 1, k), X) = 0
                /\ action \in OPTION_ACTIONS \cup YIELD_ACTIONS
                     => ~ (<<before, after>> \in {<<"waiting", "holding">>,
                                                  <<"holding", "waiting">>})

\* The recovery projection of X as portfolio/options.py asks for it:
\* weeks_to_zero on the cost basis and net premium of symbol_metrics,
\* recovery_prediction on the stock cost and the option weeks.
RecoveryOf(X) ==
    LET basis == calculate_adjusted_cost_basis(wheel_calc, X)
        prem  == get_premiums_summary(wheel_calc.option_calc, X)
        divs  == compute_dividends(X, table)
        stock_cost == compute_stock_cost(X, table)
        weeks == compute_option_weeks(X, table)
    IN  [has_options |-> option_rows(X, table) # <<>>,
         net_premium |-> prem.net_premium,
         weeks |-> weeks,
         remaining_w2z |-> basis.cost_basis - prem.net_premium - divs,
         remaining_rp  |-> stock_cost - prem.net_premium - divs,
         w2z |-> weeks_to_zero(X, table, basis.cost_basis,
                               prem.net_premium, divs),
         rp  |-> recovery_prediction(stock_cost, prem.net_premium, divs,
                                     weeks)]

\* C13: the recovery projection is a number of weeks, equal to remaining basis
\* / average weekly premium, exactly when X has option trades, the average
\* weekly premium (net premium / option weeks) is > 0 and the remaining
\* basis (cost - net premium - dividends) is > 0; otherwise the result is not
\* a number of weeks (None or the infinity marker); a reported number of
\* weeks is never negative.
C13_RecoveryProjection ==
    \A X \in Symbols :
      LET r == RecoveryOf(X)
          can_w2z == r.has_options /\ r.net_premium > 0 /\ r.remaining_w2z > 0
          can_rp  == r.has_options /\ r.net_premium > 0 /\ r.remaining_rp > 0
      IN  /\ can_w2z <=> ~ r.w2z.inf
          /\ ~ r.w2z.inf =>
               /\ r.w2z.num * (r.net_premium * r.weeks.den)
                    = (r.remaining_w2z * r.weeks.num) * r.w2z.den
               /\ r.w2z.num * r.w2z.den >= 0
          /\ can_rp <=> ~ r.rp.none
          /\ ~ r.rp.none =>
               /\ r.rp.weeks_to_zero.num * (r.net_premium * r.weeks.den)
                    = (r.remaining_rp * r.weeks.num) * r.rp.weeks_to_zero.den
               /\ r.rp.weeks_to_zero.num * r.rp.weeks_to_zero.den >= 0

\* C14: the recovery projection never divides by zero and never returns
\* infinity; with no option transactions (option weeks 0) or an average
\* weekly premium of 0, weeks_to_zero and recovery_prediction give the
\* "cannot estimate" result (None), not a number and not infinity.
C14_RecoveryNeverInfinite ==
    \A X \in Symbols :
      LET r == RecoveryOf(X)
      IN  /\ ~ r.w2z.inf => r.w2z.den # 0
          /\ ~ r.rp.none =>
               /\ r.rp.avg_weekly.den # 0
               /\ r.rp.weeks_to_zero.den # 0
               /\ r.rp.progress.den # 0
          /\ ~ r.w2z.inf
          /\ (~ r.has_options \/ r.net_premium = 0) => r.rp.none

\* The symbol has a price in the price map (a price of 0 included).
Supplied(prices, X) == ~ prices.none /\ X \in DOMAIN prices.dict

\* The sum of the fractions alloc[X], X in S.
RECURSIVE FracSum(_, _)
FracSum(alloc, S) ==
    IF S = {} THEN Quot(0, 1)
    ELSE LET X == CHOOSE X \in S : TRUE
             rest == FracSum(alloc, S \ {X})
         IN  Quot(alloc[X].num * rest.den + rest.num * alloc[X].den,
                  alloc[X].den * rest.den)

\* C15: whenever at least one symbol holds shares and has a supplied price,
\* the values get_asset_allocation(prices) returns for the open, priced
\* symbols sum to exactly 1.
C15_AllocationSumsToOne ==
    \A prices \in PriceMaps :
      LET alloc == get_asset_allocation(portfolio_calc, prices)
          included == {X \in Symbols :
                         SharesOf(table, X) > 0 /\ Supplied(prices, X)}
          total == FracSum(alloc, included \cap DOMAIN alloc)
      IN  included # {} => total.num = total.den

\* C16: get_portfolio_summary(prices).total_unrealized_pnl is the sum, over
\* the symbols with a supplied price (a price of 0 included), of
\* current_shares * price - cost_basis; unpriced symbols add nothing.
C16_UnrealizedOverPricedSymbols ==
    \A prices \in PriceMaps :
      LET priced == {X \in Symbols : Supplied(prices, X)}
          Pnl(X) == LET basis == calculate_adjusted_cost_basis(wheel_calc, X)
                    IN  basis.current_shares * prices.dict[X] - basis.cost_basis
      IN  get_portfolio_summary(portfolio_calc, prices).total_unrealized_pnl
            = DictSum([X \in priced |-> Pnl(X)])

C18_SameResultAtAnyTime ==
    \A X \in Symbols :
      \A now1 \in Clock : \A now2 \in Clock :
        symbol_metrics(X, table, wheel_calc, now1)
          = symbol_metrics(X, table, wheel_calc, now2)

\* C19: every stored row has quantity > 0, price >= 0 and fees >= 0: add
\* (and update) reject a negative quantity, price or fee and leave the table
\* unchanged, so no calculator receives such a row.
C19_StoredValuesValid ==
    \A i \in 1..Len(table) :
      /\ table[i].quantity > 0
      /\ table[i].price >= 0
      /\ table[i].fees >= 0

\* The stored actions are all among the legal ones.
StoredActionsLegal == \A i \in 1..Len(table) : table[i].action \in ALL_ACTIONS

\* A call of add or update with an action outside ALL_ACTIONS.
UnknownActionCall ==
    \/ \E r \in CrudInputs :
         /\ r.action \notin ALL_ACTIONS
         /\ add(r.datetime, r.action, r.symbol, r.quantity, r.price, r.fees)
    \/ \E tx_id \in TxIds : \E fields \in UpdateFields :
         /\ "action" \in DOMAIN fields
         /\ fields.action \notin ALL_ACTIONS
         /\ update(tx_id, fields)

\* C20: there are 14 legal actions; add and update called with any other
\* action raise ValueError and leave the table as it was (no row inserted,
\* no field of any row changed), so every stored row's action is always
\* legal.
C20_UnknownActionRejected ==
    /\ [](Cardinality(ALL_ACTIONS) = 14 /\ StoredActionsLegal)
    /\ [][UnknownActionCall => (raised' = ValueError /\ table' = table)]_vars

\* A call was rejected with ValueError while rows were stored.
C20_Witness == raised = ValueError /\ Len(table) > 1

\* C21: after any sequence of add, update and delete calls that return, every
\* stored row has category = infer_category(action); the category never
\* disagrees with the action.
C21_CategoryFollowsAction ==
    \A i \in 1..Len(table) : table[i].category = infer_category(table[i].action)

\* The rows of seq are in non-decreasing date order, rows of one timestamp in
\* insertion order (increasing id).
InDateThenInsertionOrder(seq) ==
    \A i \in 1..Len(seq) : \A j \in 1..Len(seq) :
      i < j =>
        /\ DateOf(seq[i].datetime) <= DateOf(seq[j].datetime)
        /\ seq[i].datetime = seq[j].datetime => seq[i].id < seq[j].id

\* C22: cost_timeline(X) replays X's rows in non-decreasing date order, rows
\* of one timestamp in insertion order, for the list in table order and for
\* every list WheelService.load builds from db.transactions.query.
C22_ReplayInInsertionOrder ==
    \A X \in Symbols :
      /\ InDateThenInsertionOrder(timeline_replay(X, table))
      /\ \A all_relevant \in load_all_relevant :
           InDateThenInsertionOrder(timeline_replay(X, all_relevant))

\* The positions k of the replay txs of X after which X's running shares
\* (buys/assignments minus sells/called-away of the first k rows) are > 0.
OpenPrefixes(txs, X) ==
    SelectSeq([k \in 1..Len(txs) |-> k],
              LAMBDA k : SharesOf(SubSeq(txs, 1, k), X) > 0)

\* C23: cost_timeline(X) has exactly one point for each row of X (stock,
\* option or dividend) after which the running shares are > 0, none for a
\* row after which they are <= 0, in replay order: the points carry the date
\* and action of those rows, and there are as many points as replay prefixes
\* with running shares > 0.
C23_OnePointPerOpenPrefix ==
    \A X \in Symbols :
      LET txs == timeline_replay(X, table)
          open == OpenPrefixes(txs, X)
          points == cost_timeline(X, table)
      IN  /\ Len(points) = Len(open)
          /\ \A i \in 1..Len(points) :
               /\ points[i].date = DateOf(txs[open[i]].datetime)
               /\ points[i].action = txs[open[i]].action

\* X's timeline has a point at an option or dividend row, and X has a row
\* that left no running shares and a row that left none after a sale.
C23_Witness ==
    LET txs == timeline_replay("X", table)
        open == OpenPrefixes(txs, "X")
    IN  /\ \E i \in 1..Len(open) :
             txs[open[i]].action \in OPTION_ACTIONS \cup YIELD_ACTIONS
        /\ Len(open) < Len(txs)
        /\ SharesOf(table, "X") = 0

\* The table is a list L followed by one row t of symbol X with a datetime
\* strictly later than that of every row of L.
LaterRowAppended(X) ==
    /\ table # <<>>
    /\ table[Len(table)].symbol = X
    /\ \A i \in 1..(Len(table) - 1) :
         table[i].datetime < table[Len(table)].datetime

\* seq1 is a prefix of seq2.
IsPrefix(seq1, seq2) ==
    /\ Len(seq1) <= Len(seq2)
    /\ \A i \in 1..Len(seq1) : seq1[i] = seq2[i]

\* C24: the cost timeline is append-only: for a list L and a row t of X
\* later than every row of L, cost_timeline(X, L) is a prefix of
\* cost_timeline(X, L + [t]).
C24_TimelineAppendOnly ==
    \A X \in Symbols :
      LaterRowAppended(X) =>
        IsPrefix(cost_timeline(X, SubSeq(table, 1, Len(table) - 1)),
                 cost_timeline(X, table))

\* A later row of X was appended to a list whose timeline had points, and it
\* changed the cost per share in a new point.
C24_Witness ==
    /\ LaterRowAppended("X")
    /\ LET before == cost_timeline("X", SubSeq(table, 1, Len(table) - 1))
           after  == cost_timeline("X", table)
       IN  /\ Len(before) > 1
           /\ Len(after) > Len(before)
           /\ after[Len(after)].cost_per_share
                # before[Len(before)].cost_per_share

\* The option rows of X in date order (rows of one datetime in table order).
OptionRowsInOrder(X) ==
    SelectSeq(timeline_replay(X, table), LAMBDA t : t.action \in OPTION_ACTIONS)

\* C25: whenever X has at least one option row, trade_pnl_series(X) returns
\* exactly one entry per option row of X, in date order, whatever X's current
\* share count is (0 shares included).
C25_OneEntryPerOptionRow ==
    \A X \in Symbols : \A now \in Clock :
      LET opts == OptionRowsInOrder(X)
          trades == trade_pnl_series(X, table, now).trades
      IN  opts # <<>> =>
            /\ Len(trades) = Len(opts)
            /\ \A i \in 1..Len(trades) :
                 /\ trades[i].date = DateOf(opts[i].datetime)
                 /\ trades[i].action = opts[i].action

\* The fees of X's option rows.
OptionFees(rows, X) == SumRows(rows, X, OPTION_ACTIONS, "fees")

\* C26: in the list trade_pnl_series(X) returns, entry i has net_income =
\* price*quantity*100 - fees for STO / STO_CALL and -(price*quantity*100 +
\* fees) for any other option action, its cumulative is the sum of net_income
\* over the entries up to i, and the returned total is the last entry's
\* cumulative, which is X's net premium minus the fees of X's option rows.
C26_TradeNetAndCumulative ==
    \A X \in Symbols : \A now \in Clock :
      LET series == trade_pnl_series(X, table, now)
          trades == series.trades
          n == Len(trades)
          Premium(e) == e.price_per_contract * e.quantity * 100
      IN  /\ \A i \in 1..n :
               /\ trades[i].net_income =
                    IF trades[i].action \in {"STO", "STO_CALL"}
                    THEN Premium(trades[i]) - trades[i].fees
                    ELSE -(Premium(trades[i]) + trades[i].fees)
               /\ trades[i].cumulative =
                    SeqSum([j \in 1..i |-> trades[j].net_income])
          /\ n > 0 =>
               /\ series.total = trades[n].cumulative
               /\ series.total =
                    get_premiums_summary(wheel_calc.option_calc, X).net_premium
                    - OptionFees(table, X)
               /\ series.total = NetPremium(table, X) - OptionFees(table, X)

\* The series of X has a sale and a purchase of options, both with fees.
C26_Witness ==
    \E now \in Clock :
      LET trades == trade_pnl_series("X", table, now).trades
      IN  /\ \E i \in 1..Len(trades) :
               trades[i].is_income /\ trades[i].fees > 0
          /\ \E i \in 1..Len(trades) :
               ~ trades[i].is_income /\ trades[i].fees > 0

\* The transactions of test_adjusted_cost_basis: a buy of 100 shares @ 100
\* (amount 10000, fees 10) and a sold put, 1 contract @ 2 (amount -200).
SignExample ==
    << [type |-> "stock", subtype |-> "buy", date |-> 1, amount |-> 10000,
        symbol |-> "AAPL", quantity |-> 100, price |-> 100, fees |-> 10,
        option_direction |-> None],
       [type |-> "option", subtype |-> "sell_put", date |-> 2, amount |-> -200,
        symbol |-> "AAPL", quantity |-> 1, price |-> 2, fees |-> 0,
        option_direction |-> None] >>

SignBasis ==
    calculate_adjusted_cost_basis(WheelStrategyCalculator(SignExample), "AAPL")

\* The sum of the amounts of X's stock buys / of X's option transactions
\* (amount > 0 an expense, amount < 0 an income) / of X's fees.
AmountsOf(X, kind) ==
    LET Term(t) ==
            IF t.symbol # X THEN 0
            ELSE IF kind = "buy" /\ IsStockBuy(t) THEN t.amount
            ELSE IF kind = "option" /\ t.type = "option" THEN t.amount
            ELSE IF kind = "fees" THEN t.fees
            ELSE 0
    IN  SeqSum([i \in 1..Len(transactions) |-> Term(transactions[i])])

Permuted(rows) ==
    {[i \in 1..Len(rows) |-> rows[p[i]]] : p \in Permutations(1..Len(rows))}

\* What the five order-free operations return for X on a list of rows.
OrderFreeResults(X, rows) ==
    LET calc == WheelStrategyCalculator(to_transactions(rows))
    IN  <<calculate_adjusted_cost_basis(calc, X),
          calculate_realized_pnl(calc, X),
          calculate_realized_pnl(calc, None),
          get_premiums_summary(calc.option_calc, X),
          calculate_option_positions(calc.option_calc, X),
          compute_current_shares(X, rows)>>

\* C28: calculate_adjusted_cost_basis, calculate_realized_pnl,
\* get_premiums_summary, calculate_option_positions and
\* compute_current_shares return the same results for every permutation of
\* the list of transactions (newest first as query returns it, oldest first,
\* or any other order).
C28_PermutationInvariant ==
    \A X \in Symbols :
      LET results == OrderFreeResults(X, table)
      IN  \A rows \in Permuted(table) : OrderFreeResults(X, rows) = results

\* The table lists a sale of X before its purchase and an option row, and is
\* not in date order.
C28_Witness ==
    /\ SharesOf(table, "X") > 0
    /\ HasAction(table, "X", OPTION_ACTIONS)
    /\ \E i \in 1..Len(table) : \E j \in 1..Len(table) :
         /\ i < j
         /\ table[i].action \in {"SELL", "CALLED_AWAY"}
         /\ table[j].action \in {"BUY", "ASSIGNMENT"}
         /\ table[i].datetime > table[j].datetime

\* What the six per-symbol operations return for X on a list of rows, the
\* clock reading now.
PerSymbolResults(X, rows, now) ==
    LET calc == WheelStrategyCalculator(to_transactions(rows))
    IN  <<calculate_adjusted_cost_basis(calc, X),
          calculate_realized_pnl(calc, X),
          get_premiums_summary(calc.option_calc, X),
          get_wheel_cycle_info(calc, X),
          cost_timeline(X, rows),
          trade_pnl_series(X, rows, now)>>

\* C29: for any symbol X, what calculate_adjusted_cost_basis(X),
\* calculate_realized_pnl(X), get_premiums_summary(X),
\* get_wheel_cycle_info(X), cost_timeline(X) and trade_pnl_series(X) return
\* is what they return on X's rows alone: rows of other symbols (or of no
\* symbol), added, removed or altered, change nothing.
C29_SymbolIsolation ==
    \A X \in Symbols : \A now \in Clock :
      PerSymbolResults(X, table, now)
        = PerSymbolResults(X, RowsOf(table, X), now)

\* X holds shares and has option rows, next to an option row of another
\* symbol.
C29_Witness ==
    /\ SharesOf(table, "X") > 0
    /\ HasAction(table, "X", OPTION_ACTIONS)
    /\ HasAction(table, "Y", OPTION_ACTIONS)

\* C30: no calculator operation modifies its input: after the calculators
\* are constructed on the caller's list, and after every call of a query
\* method, of cost_timeline or of trade_pnl_series, the caller's list of rows
\* and list of transactions have the order, length and elements they had,
\* the calculator is as it was, and the call made again returns what it
\* returned.
C30_InputsUnchanged ==
    /\ [](session.started =>
            session.txns = to_transactions(session.rows))
    /\ [][session.started =>
            /\ session'.started
            /\ session'.rows = session.rows
            /\ session'.txns = session.txns
            /\ session'.calc = session.calc
            /\ call_result(session', session'.last.op, session'.last.args)
                 = call_result(session, session'.last.op, session'.last.args)
         ]_vars

\* A call was made on calculators constructed from a list that is not in
\* date order (newest first, as query returns it).
C30_Witness ==
    /\ session.started
    /\ session.last.op # None
    /\ Len(session.txns) > 1
    /\ session.txns # session.calc.wheel_calculator.transactions

====
